---------------------------- MODULE Spec2Model ----------------------------
(***************************************************************************)
(* Error-diffusion dithering of package dither (src/dither/dither.go).     *)
(*                                                                         *)
(* A colour is a record tagged with the Go type that holds it; its RGBA()  *)
(* method, the RGBA colour model, image.RGBA's At/Set and draw.Draw are    *)
(* modelled by what the Go standard library does at the places dither.go   *)
(* calls them.  An image buffer keeps one record per pixel (the four bytes *)
(* of a pixel of Pix), so offsets and Stride count pixels.                 *)
(*                                                                         *)
(* TLC's integers are 32-bit signed, so the two uint32 products of the     *)
(* library that exceed 2^31 are computed in 16-bit limbs; the results are  *)
(* the exact uint32 results (none of them wraps in Go).                    *)
(***************************************************************************)
EXTENDS Integers, Sequences, FiniteSets, TLC

VARIABLES
    pc,        \* position of the running call
    img,       \* Dither: the source image (never written)
    dithered,  \* the *image.RGBA being mutated
    x, y,      \* loop variables of Dither / arguments of a kernel call
    algo,      \* the Algo passed in
    find,      \* the ColorFinder passed in
    oldPixel,  \* Dither's oldPixel (palette run: the colour passed in)
    newPixel,  \* Dither's newPixel (palette run: the strategy's result)
    diff,      \* Dither's diff / the err argument of a kernel call
    before,    \* history: the buffer as the last kernel call received it
    calls,     \* history: the img.Set calls of the last kernel call
    cur,       \* history: the pixel the last kernel call was applied at
    quant,     \* history: per visit, the pixel, its value, find's result, what was stored
    again      \* palette run: the strategy applied to its own result

vars == <<pc, img, dithered, x, y, algo, find, oldPixel, newPixel, diff,
          before, calls, cur, quant, again>>

(***************************************************************************)
(* Bounds of the model and program constants.                              *)
(***************************************************************************)
MaxW == 3
MaxH == 2
KernelW == 5
KernelH == 2

MaxChannel == 65535
Threshold == 32767
FSShift == 4
BurkesShift == 5

\* ------------------------------------------------------------------------
\* Colours
\* ------------------------------------------------------------------------

\* color.RGBA, color.RGBA64, color.NRGBA64, color.Gray16 values.
RGBA8(r, g, b, a) == [kind |-> "RGBA", R |-> r, G |-> g, B |-> b, A |-> a]
RGBA64(r, g, b, a) == [kind |-> "RGBA64", R |-> r, G |-> g, B |-> b, A |-> a]
NRGBA64(r, g, b, a) == [kind |-> "NRGBA64", R |-> r, G |-> g, B |-> b, A |-> a]
Gray16(v) == [kind |-> "Gray16", Y |-> v]

\* The four uint32 results of a RGBA() call.
Quad(r, g, b, a) == [r |-> r, g |-> g, b |-> b, a |-> a]

\* uint32(c)*uint32(a)/0xffff of color.NRGBA64.RGBA, for c, a in 0..65535.
\* The product is formed from 8-bit halves: c*a = hi*65536 + lo.
MulDiv65535(c, a) ==
    LET c1 == c \div 256
        c0 == c % 256
        a1 == a \div 256
        a0 == a % 256
        m  == (c1 * a0 + c0 * a1) * 256 + c0 * a0
        hi == (c1 * a1) + (m \div 65536)
        lo == m % 65536
    IN  hi + ((hi + lo) \div 65535)

\* c.RGBA(): alpha-premultiplied 16-bit channels, by dynamic type.
ColorRGBA(c) ==
    CASE c.kind = "RGBA"    -> Quad(c.R * 257, c.G * 257, c.B * 257, c.A * 257)
      [] c.kind = "RGBA64"  -> Quad(c.R, c.G, c.B, c.A)
      [] c.kind = "Gray16"  -> Quad(c.Y, c.Y, c.Y, 65535)
      [] c.kind = "NRGBA64" -> Quad(MulDiv65535(c.R, c.A), MulDiv65535(c.G, c.A),
                                    MulDiv65535(c.B, c.A), c.A)

\* color.RGBAModel.Convert(c), as image.RGBA.Set applies it.
RGBAModelConvert(c) ==
    IF c.kind = "RGBA" THEN c
    ELSE LET q == ColorRGBA(c)
         IN  RGBA8(q.r \div 256, q.g \div 256, q.b \div 256, q.a \div 256)

\* Go's signed shifts: << multiplies, >> is the arithmetic shift (floor).
Pow2(n) == IF n = 0 THEN 1 ELSE IF n = 1 THEN 2 ELSE IF n = 2 THEN 4
           ELSE IF n = 3 THEN 8 ELSE IF n = 4 THEN 16 ELSE 32
Shl(v, n) == v * Pow2(n)
Shr(v, n) == v \div Pow2(n)

clamp(val, min, max) ==
    IF val > max THEN max
    ELSE IF val < min THEN min
    ELSE val

makeColor(r, g, b, a) ==
    NRGBA64(clamp(r, 0, MaxChannel), clamp(g, 0, MaxChannel),
            clamp(b, 0, MaxChannel), clamp(a, 0, MaxChannel))

RGBAVec(r, g, b, a) == [R |-> r, G |-> g, B |-> b, A |-> a]

\* Mutants of colorDiff: the channels added instead of subtracted; no error at all.
colorDiffSum(a, b) ==
    LET p == ColorRGBA(a)
        q == ColorRGBA(b)
    IN  RGBAVec(p.r + q.r, p.g + q.g, p.b + q.b, p.a + q.a)

colorDiffZero(a, b) == RGBAVec(0, 0, 0, 0)

colorDiff(a, b) ==
    LET p == ColorRGBA(a)
        q == ColorRGBA(b)
    IN  RGBAVec(p.r - q.r, p.g - q.g, p.b - q.b, p.a - q.a)

\* Mutant of applyWeightsFloydSteinber: the division rounds toward zero, as
\* /16 would, instead of down, as >>4 does.
applyWeightsFloydSteinberTrunc(orig, err, mul) ==
    LET o == ColorRGBA(orig)
        T(v) == IF v < 0 THEN -((-v) \div 16) ELSE v \div 16
    IN  makeColor(o.r + T(err.R * mul), o.g + T(err.G * mul),
                  o.b + T(err.B * mul), o.a + T(err.A * mul))

applyWeightsFloydSteinber(orig, err, mul) ==
    LET o == ColorRGBA(orig)
    IN  makeColor(o.r + Shr(err.R * mul, FSShift), o.g + Shr(err.G * mul, FSShift),
                  o.b + Shr(err.B * mul, FSShift), o.a + Shr(err.A * mul, FSShift))

\* Mutant of applyWeightsBurkes: mul taken as a factor, not as a shift count.
applyWeightsBurkesMul(orig, err, mul) ==
    LET o == ColorRGBA(orig)
    IN  makeColor(o.r + Shr(err.R * mul, BurkesShift), o.g + Shr(err.G * mul, BurkesShift),
                  o.b + Shr(err.B * mul, BurkesShift), o.a + Shr(err.A * mul, BurkesShift))

applyWeightsBurkes(orig, err, mul) ==
    LET o == ColorRGBA(orig)
    IN  makeColor(o.r + Shr(Shl(err.R, mul), BurkesShift),
                  o.g + Shr(Shl(err.G, mul), BurkesShift),
                  o.b + Shr(Shl(err.B, mul), BurkesShift),
                  o.a + Shr(Shl(err.A, mul), BurkesShift))

\* ------------------------------------------------------------------------
\* Images
\* ------------------------------------------------------------------------

Rectangle(x0, y0, x1, y1) == [Min |-> [X |-> x0, Y |-> y0], Max |-> [X |-> x1, Y |-> y1]]
Dx(r) == r.Max.X - r.Min.X
Dy(r) == r.Max.Y - r.Min.Y

\* image.Point{px, py}.In(r)
In(px, py, r) == r.Min.X <= px /\ px < r.Max.X /\ r.Min.Y <= py /\ py < r.Max.Y

\* (*image.RGBA).PixOffset, counted in pixels, as an index of the sequence Pix.
PixOffset(p, px, py) == (py - p.Rect.Min.Y) * p.Stride + (px - p.Rect.Min.X) + 1

\* Mutant of NewRGBA: a buffer of the same size placed at the zero point.
NewRGBAAtZero(r) ==
    [Pix |-> [i \in 1..(Dx(r) * Dy(r)) |-> RGBA8(0, 0, 0, 0)], Stride |-> Dx(r),
     Rect |-> Rectangle(0, 0, Dx(r), Dy(r))]

\* image.NewRGBA(r): all bytes zero.
NewRGBA(r) ==
    [Pix |-> [i \in 1..(Dx(r) * Dy(r)) |-> RGBA8(0, 0, 0, 0)], Stride |-> Dx(r), Rect |-> r]

\* (*image.RGBA).At: the zero colour outside the bounds.
At(p, px, py) ==
    IF ~In(px, py, p.Rect) THEN RGBA8(0, 0, 0, 0) ELSE p.Pix[PixOffset(p, px, py)]

\* Mutant of Set: no bounds test, so an offset beside the row lands in the
\* neighbouring row whenever it is inside Pix.
SetUnchecked(p, px, py, c) ==
    IF PixOffset(p, px, py) \in 1..Len(p.Pix)
    THEN [p EXCEPT !.Pix[PixOffset(p, px, py)] = RGBAModelConvert(c)]
    ELSE p

\* (*image.RGBA).Set: nothing outside the bounds, the RGBA model's colour inside.
Set(p, px, py, c) ==
    IF ~In(px, py, p.Rect) THEN p
    ELSE [p EXCEPT !.Pix[PixOffset(p, px, py)] = RGBAModelConvert(c)]

\* draw.Draw(dst, r, src, r.Min, draw.Src) for dst of bounds r: every pixel of
\* dst becomes the source pixel's RGBA() value cut to 8 bits per channel.
Draw(dst, src) ==
    [dst EXCEPT !.Pix = [i \in 1..Len(dst.Pix) |-> RGBAModelConvert(src.Px[i])]]

\* ------------------------------------------------------------------------
\* Palette strategies
\* ------------------------------------------------------------------------

\* Mutants of BlackAndWhitePalette: the two results swapped; the comparison
\* made inclusive; the bright branch left at the computed gray.
BlackAndWhitePaletteInverted(c) ==
    LET q == ColorRGBA(c)
        gray == (q.r + q.g + q.b) \div 3
    IN  IF gray < Threshold THEN Gray16(MaxChannel) ELSE Gray16(0)

BlackAndWhitePaletteInclusive(c) ==
    LET q == ColorRGBA(c)
        gray == (q.r + q.g + q.b) \div 3
    IN  IF gray <= Threshold THEN Gray16(0) ELSE Gray16(MaxChannel)

BlackAndWhitePaletteNoElse(c) ==
    LET q == ColorRGBA(c)
        gray == (q.r + q.g + q.b) \div 3
    IN  IF gray < Threshold THEN Gray16(0) ELSE Gray16(gray)

BlackAndWhitePalette(c) ==
    LET q == ColorRGBA(c)
        gray == (q.r + q.g + q.b) \div 3
    IN  IF gray < Threshold THEN Gray16(0) ELSE Gray16(MaxChannel)


\* palette.WebSafe: the 6x6x6 colour cube, red outermost.
WebSafe ==
    [k \in 1..216 |->
        RGBA8(51 * ((k - 1) \div 36), 51 * (((k - 1) \div 6) % 6), 51 * ((k - 1) % 6), 255)]

\* palette.Plan9: entry 64r+16v+((v-r+4g+b) mod 16) holds the colour of the
\* (r, v, g, b) step of the generating loops.
Plan9 ==
    [k \in 1..256 |->
        LET r == (k - 1) \div 64
            v == ((k - 1) \div 16) % 4
            t == (((k - 1) % 16) - (v - r) + 16) % 16
            g == t \div 4
            b == t % 4
            den == IF g > r THEN (IF b > g THEN b ELSE g) ELSE (IF b > r THEN b ELSE r)
            num == 17 * (4 * den + v)
        IN  IF den = 0 THEN RGBA8(17 * v, 17 * v, 17 * v, 255)
            ELSE RGBA8((r * num) \div den, (g * num) \div den, (b * num) \div den, 255)]

\* color.sqDiff(a, b) = ((a-b)*(a-b)) >> 2 in uint32.  For 16-bit a and b the
\* square is below 2^32, so this is floor(k*k/4) for k = |a-b|, formed from k's
\* half to stay below 2^31.
sqDiff(a, b) ==
    LET k == IF a < b THEN b - a ELSE a - b
        h == k \div 2
    IN  (h * h) + (h * (k % 2))

\* A uint32 held as two 16-bit limbs.
U32(hi, lo) == [hi |-> hi + (lo \div 65536), lo |-> lo % 65536]
U32Less(a, b) == a.hi < b.hi \/ (a.hi = b.hi /\ a.lo < b.lo)

\* The sum of the four squared differences of color.Palette.Index.
SumSqDiff(c, v) ==
    LET s1 == sqDiff(c.r, v.r) + sqDiff(c.g, v.g)
        s2 == sqDiff(c.b, v.b) + sqDiff(c.a, v.a)
    IN  U32((s1 \div 65536) + (s2 \div 65536), (s1 % 65536) + (s2 % 65536))

\* color.Palette.Index over entries lo..hi (counted from 1): the first entry
\* of the least sum, which is what the loop returns -- it moves to an entry
\* only on a strictly smaller sum, and an entry of sum 0, where it returns at
\* once, is the first of the least sum.  Halving keeps the evaluation shallow.
RECURSIVE IndexIn(_, _, _, _)
IndexIn(p, c, lo, hi) ==
    IF lo = hi THEN [i |-> lo, sum |-> SumSqDiff(c, ColorRGBA(p[lo]))]
    ELSE LET mid == (lo + hi) \div 2
             l == IndexIn(p, c, lo, mid)
             r == IndexIn(p, c, mid + 1, hi)
         IN  IF U32Less(r.sum, l.sum) THEN r ELSE l

\* color.Palette.Convert
PaletteConvert(p, c) == p[IndexIn(p, ColorRGBA(c), 1, Len(p)).i]

WebSafePalette(c) == PaletteConvert(WebSafe, c)

Plan9Palette(c) == PaletteConvert(Plan9, c)

Finders == {"BlackAndWhitePalette", "WebSafePalette", "Plan9Palette"}

\* find(c) for the ColorFinder named f.
Find(f, c) ==
    CASE f = "BlackAndWhitePalette" -> BlackAndWhitePalette(c)
      [] f = "WebSafePalette" -> WebSafePalette(c)
      [] f = "Plan9Palette" -> Plan9Palette(c)

\* ------------------------------------------------------------------------
\* Diffusion kernels
\* ------------------------------------------------------------------------

\* One img.Set(px, py, c) of a kernel: the buffer after it and the call logged.
Call(st, px, py, c) ==
    [img |-> Set(st.img, px, py, c),
     calls |-> Append(st.calls, [X |-> px, Y |-> py, C |-> c])]

Enter(p) == [img |-> p, calls |-> <<>>]

\* Mutant of FloydSteinberg: the last neighbour is (x-1, y), a pixel already visited.
FloydSteinbergBackward(px, py, p, err) ==
    LET s0 == Enter(p)
        s1 == Call(s0, px + 1, py, applyWeightsFloydSteinber(At(s0.img, px + 1, py), err, 7))
        s2 == Call(s1, px + 1, py + 1,
                   applyWeightsFloydSteinber(At(s1.img, px + 1, py + 1), err, 1))
        s3 == Call(s2, px, py + 1, applyWeightsFloydSteinber(At(s2.img, px, py + 1), err, 5))
        s4 == Call(s3, px - 1, py, applyWeightsFloydSteinber(At(s3.img, px - 1, py), err, 3))
    IN  s4

FloydSteinberg(px, py, p, err) ==
    LET s0 == Enter(p)
        s1 == Call(s0, px + 1, py, applyWeightsFloydSteinber(At(s0.img, px + 1, py), err, 7))
        s2 == Call(s1, px + 1, py + 1,
                   applyWeightsFloydSteinber(At(s1.img, px + 1, py + 1), err, 1))
        s3 == Call(s2, px, py + 1, applyWeightsFloydSteinber(At(s2.img, px, py + 1), err, 5))
        s4 == Call(s3, px - 1, py + 1,
                   applyWeightsFloydSteinber(At(s3.img, px - 1, py + 1), err, 3))
    IN  s4

Burkes(px, py, p, err) ==
    LET s0 == Enter(p)
        s1 == Call(s0, px + 1, py, applyWeightsBurkes(At(s0.img, px + 1, py), err, 3))
        s2 == Call(s1, px + 2, py, applyWeightsBurkes(At(s1.img, px + 2, py), err, 2))
        s3 == Call(s2, px - 2, py + 1, applyWeightsBurkes(At(s2.img, px - 2, py + 1), err, 1))
        s4 == Call(s3, px - 1, py + 1, applyWeightsBurkes(At(s3.img, px - 1, py + 1), err, 2))
        s5 == Call(s4, px, py + 1, applyWeightsBurkes(At(s4.img, px, py + 1), err, 3))
        s6 == Call(s5, px + 1, py + 1, applyWeightsBurkes(At(s5.img, px + 1, py + 1), err, 2))
        s7 == Call(s6, px + 2, py + 1, applyWeightsBurkes(At(s6.img, px + 2, py + 1), err, 1))
    IN  s7

Algos == {"FloydSteinberg", "Burkes"}

\* algo(px, py, p, err) for the Algo named al.
Algo(al, px, py, p, err) ==
    IF al = "FloydSteinberg" THEN FloydSteinberg(px, py, p, err) ELSE Burkes(px, py, p, err)

\* ------------------------------------------------------------------------
\* Inputs
\* ------------------------------------------------------------------------

\* Source pixels, as their RGBA() values: opaque black and white, the two grays
\* around the monochrome threshold, an opaque colour and a translucent colour.
SrcColors ==
    {RGBA64(0, 0, 0, 65535), RGBA64(65535, 65535, 65535, 65535),
     RGBA64(32767, 32767, 32767, 65535), RGBA64(32768, 32768, 32768, 65535),
     RGBA64(65535, 26214, 4660, 65535), RGBA64(24000, 8000, 30000, 32896)}

\* rect.Min of every image: not the zero point, so that offsets and coordinates differ.
Origin == <<-1, 2>>

\* The w x h image at origin o whose pixel (col, row) is c1 where a*col+b*row is
\* even and c2 elsewhere: uniform, striped either way, or a checkerboard.
Image(o, w, h, c1, c2, a, b) ==
    [Rect |-> Rectangle(o[1], o[2], o[1] + w, o[2] + h),
     Px |-> [i \in 1..(w * h) |->
                IF ((a * ((i - 1) % w)) + (b * ((i - 1) \div w))) % 2 = 0 THEN c1 ELSE c2]]

Nil == [kind |-> "nil"]
NoImage == [Pix |-> <<>>, Stride |-> 0, Rect |-> Rectangle(0, 0, 0, 0)]
NoSource == [Rect |-> Rectangle(0, 0, 0, 0), Px |-> <<>>]

\* ------------------------------------------------------------------------
\* Dither
\* ------------------------------------------------------------------------

Init ==
    \E w \in 0..MaxW, h \in 0..MaxH, c1 \in SrcColors, c2 \in SrcColors,
       a \in 0..1, b \in 0..1, al \in Algos, f \in Finders :
        /\ pc = "entry"
        /\ img = Image(Origin, w, h, c1, c2, a, b)
        /\ dithered = NoImage
        /\ x = 0
        /\ y = 0
        /\ algo = al
        /\ find = f
        /\ oldPixel = Nil
        /\ newPixel = Nil
        /\ diff = RGBAVec(0, 0, 0, 0)
        /\ before = NoImage
        /\ calls = <<>>
        /\ cur = <<0, 0>>
        /\ quant = <<>>
        /\ again = Nil

\* rect := img.Bounds(); dithered := image.NewRGBA(rect); draw.Draw(...);
\* y := rect.Min.Y
Begin ==
    /\ pc = "entry"
    /\ dithered' = Draw(NewRGBA(img.Rect), img)
    /\ y' = img.Rect.Min.Y
    /\ pc' = "rows"
    /\ UNCHANGED <<img, x, algo, find, oldPixel, newPixel, diff, before, calls, cur,
                   quant, again>>

\* y < rect.Max.Y: x := rect.Min.X
RowBegin ==
    /\ pc = "rows"
    /\ y < img.Rect.Max.Y
    /\ x' = img.Rect.Min.X
    /\ pc' = "cols"
    /\ UNCHANGED <<img, dithered, y, algo, find, oldPixel, newPixel, diff, before,
                   calls, cur, quant, again>>

\* The body of the inner loop, and x++.
Visit ==
    /\ pc = "cols"
    /\ x < img.Rect.Max.X
    /\ \E old \in {At(dithered, x, y)} :
       \E new \in {Find(find, old)} :
       \E set \in {Set(dithered, x, y, new)} :
       \E d \in {colorDiff(old, new)} :
       \E st \in {Algo(algo, x, y, set, d)} :
           /\ oldPixel' = old
           /\ newPixel' = new
           /\ diff' = d
           /\ before' = set
           /\ dithered' = st.img
           /\ calls' = st.calls
           /\ quant' = Append(quant, [X |-> x, Y |-> y, Old |-> old, New |-> new,
                                       Stored |-> At(set, x, y)])
    /\ cur' = <<x, y>>
    /\ x' = x + 1
    /\ UNCHANGED <<pc, img, y, algo, find, again>>

\* x >= rect.Max.X: y++
RowEnd ==
    /\ pc = "cols"
    /\ x >= img.Rect.Max.X
    /\ y' = y + 1
    /\ pc' = "rows"
    /\ UNCHANGED <<img, dithered, x, algo, find, oldPixel, newPixel, diff, before,
                   calls, cur, quant, again>>

\* y >= rect.Max.Y: return dithered
Return ==
    /\ pc = "rows"
    /\ y >= img.Rect.Max.Y
    /\ pc' = "done"
    /\ UNCHANGED <<img, dithered, x, y, algo, find, oldPixel, newPixel, diff, before,
                   calls, cur, quant, again>>

Next == Begin \/ RowBegin \/ Visit \/ RowEnd \/ Return

Spec == Init /\ [][Next]_vars

\* ------------------------------------------------------------------------
\* One kernel call on its own: FloydSteinberg and Burkes are exported.
\* ------------------------------------------------------------------------

KernelColors ==
    {RGBA64(0, 0, 0, 65535), RGBA64(65535, 65535, 65535, 65535),
     RGBA64(32768, 32768, 32768, 65535), RGBA64(24000, 8000, 30000, 32896)}

\* Error values over the whole range a 16-bit difference can take: multiples
\* of 16 and of 257, values that are neither, the extremes, and zero.
ErrVals == {-65535, -32639, -4112, -257, -16, -1, 0, 1, 15, 16, 257, 4112, 32896, 65535}

ErrVecs ==
    {RGBAVec(e, -e, e \div 2, 0) : e \in ErrVals}
        \cup {RGBAVec(e, e, e, e) : e \in {-32639, 257}}

InitKernel ==
    \E w \in 1..KernelW, h \in 1..KernelH, c1 \in KernelColors, c2 \in KernelColors,
       a \in 0..1, b \in 0..1, al \in Algos, e \in ErrVecs :
    \E px \in Origin[1]..(Origin[1] + w - 1), py \in Origin[2]..(Origin[2] + h - 1) :
        /\ pc = "call"
        /\ img = NoSource
        /\ dithered = Draw(NewRGBA(Rectangle(Origin[1], Origin[2], Origin[1] + w, Origin[2] + h)),
                           Image(Origin, w, h, c1, c2, a, b))
        /\ x = px
        /\ y = py
        /\ algo = al
        /\ find = "none"
        /\ oldPixel = Nil
        /\ newPixel = Nil
        /\ diff = e
        /\ before = NoImage
        /\ calls = <<>>
        /\ cur = <<0, 0>>
        /\ quant = <<>>
        /\ again = Nil

\* FloydSteinberg(x, y, dithered, diff)
CallFloydSteinberg ==
    /\ pc = "call"
    /\ algo = "FloydSteinberg"
    /\ \E st \in {FloydSteinberg(x, y, dithered, diff)} :
           /\ dithered' = st.img
           /\ calls' = st.calls
    /\ before' = dithered
    /\ cur' = <<x, y>>
    /\ pc' = "ret"
    /\ UNCHANGED <<img, x, y, algo, find, oldPixel, newPixel, diff, quant, again>>

\* Burkes(x, y, dithered, diff)
CallBurkes ==
    /\ pc = "call"
    /\ algo = "Burkes"
    /\ \E st \in {Burkes(x, y, dithered, diff)} :
           /\ dithered' = st.img
           /\ calls' = st.calls
    /\ before' = dithered
    /\ cur' = <<x, y>>
    /\ pc' = "ret"
    /\ UNCHANGED <<img, x, y, algo, find, oldPixel, newPixel, diff, quant, again>>

NextKernel == CallFloydSteinberg \/ CallBurkes

SpecKernel == InitKernel /\ [][NextKernel]_vars

\* ------------------------------------------------------------------------
\* One palette strategy on its own, applied to a colour and then to its result.
\* ------------------------------------------------------------------------

\* Colours of every type the strategies meet: grays around the comparison of
\* BlackAndWhitePalette, channel triples whose mean falls on and beside it,
\* 8-bit colours, and colours that are not alpha-premultiplied.
PaletteInputs ==
    {Gray16(v) : v \in {0, 1, 4095, 4096, 32766, 32767, 32768, 32769, 65534, 65535}}
        \cup {RGBA64(r, g, b, 65535) : r \in {32766, 32767, 32768}, g \in {32766, 32767, 32769},
                                       b \in {32765, 32767, 32768}}
        \cup {RGBA8(r, g, b, 255) : r \in {0, 127, 255}, g \in {51, 128, 255}, b \in {0, 68, 128}}
        \cup {NRGBA64(r, 40000, b, a) : r \in {0, 65535}, b \in {12345, 65535}, a \in {0, 32896, 65535}}

InitPalette ==
    \E c \in PaletteInputs, f \in Finders :
        /\ pc = "quantize"
        /\ img = NoSource
        /\ dithered = NoImage
        /\ x = 0
        /\ y = 0
        /\ algo = "none"
        /\ find = f
        /\ oldPixel = c
        /\ newPixel = Nil
        /\ diff = RGBAVec(0, 0, 0, 0)
        /\ before = NoImage
        /\ calls = <<>>
        /\ cur = <<0, 0>>
        /\ quant = <<>>
        /\ again = Nil

\* newPixel := find(oldPixel)
Quantize ==
    /\ pc = "quantize"
    /\ newPixel' = Find(find, oldPixel)
    /\ pc' = "requantize"
    /\ UNCHANGED <<img, dithered, x, y, algo, find, oldPixel, diff, before, calls, cur,
                   quant, again>>

\* again := find(newPixel)
Requantize ==
    /\ pc = "requantize"
    /\ again' = Find(find, newPixel)
    /\ pc' = "quantized"
    /\ UNCHANGED <<img, dithered, x, y, algo, find, oldPixel, newPixel, diff, before,
                   calls, cur, quant>>

NextPalette == Quantize \/ Requantize

SpecPalette == InitPalette /\ [][NextPalette]_vars

\* ------------------------------------------------------------------------
\* Properties
\* ------------------------------------------------------------------------

Black8 == RGBA8(0, 0, 0, 255)
White8 == RGBA8(255, 255, 255, 255)
BlackSrc == RGBA64(0, 0, 0, 65535)
WhiteSrc == RGBA64(65535, 65535, 65535, 65535)
Translucent == RGBA64(24000, 8000, 30000, 32896)

IsBlack(c) == c.R = 0 /\ c.G = 0 /\ c.B = 0
IsWhite(c) == c.R = 255 /\ c.G = 255 /\ c.B = 255

Pixels == 1..Len(dithered.Pix)
Width == Dx(img.Rect)
Height == Dy(img.Rect)
Monochrome == find = "BlackAndWhitePalette"

\* The kernels as the specification tabulates them: offset and numerator of
\* each neighbour, in the order written, and the denominator.
FSTable ==
    <<[dx |-> 1, dy |-> 0, w |-> 7], [dx |-> 1, dy |-> 1, w |-> 1],
      [dx |-> 0, dy |-> 1, w |-> 5], [dx |-> -1, dy |-> 1, w |-> 3]>>
BurkesTable ==
    <<[dx |-> 1, dy |-> 0, w |-> 8], [dx |-> 2, dy |-> 0, w |-> 4],
      [dx |-> -2, dy |-> 1, w |-> 2], [dx |-> -1, dy |-> 1, w |-> 4],
      [dx |-> 0, dy |-> 1, w |-> 8], [dx |-> 1, dy |-> 1, w |-> 4],
      [dx |-> 2, dy |-> 1, w |-> 2]>>
Table(al) == IF al = "FloydSteinberg" THEN FSTable ELSE BurkesTable
Denominator(al) == IF al = "FloydSteinberg" THEN 16 ELSE 32

\* floor(e*w/den): the share of error e a neighbour of numerator w is due.
Share(e, w, den) == (e * w) \div den

\* A neighbour's channels plus its shares, before clamping.
Unclamped(p, px, py, err, w, den) ==
    LET q == ColorRGBA(At(p, px, py))
    IN  [R |-> q.r + Share(err.R, w, den), G |-> q.g + Share(err.G, w, den),
         B |-> q.b + Share(err.B, w, den), A |-> q.a + Share(err.A, w, den)]

\* The colour a neighbour is due: its channels plus its shares, clamped.
Due(p, px, py, err, w, den) ==
    LET u == Unclamped(p, px, py, err, w, den)
    IN  makeColor(u.R, u.G, u.B, u.A)

\* C1: after Dither with BlackAndWhitePalette, under either kernel, the colour
\* channels of every pixel of the result are all 0 or all 255.
C1_OnlyBlackAndWhite ==
    (pc = "done" /\ Monochrome) =>
        \A i \in Pixels : IsBlack(dithered.Pix[i]) \/ IsWhite(dithered.Pix[i])

\* C1 witness: a finished monochrome run over a source with translucent,
\* coloured pixels whose result has both black and white pixels.
C1_Witness ==
    /\ pc = "done" /\ Monochrome /\ Width >= 2 /\ Height >= 2
    /\ \E i \in Pixels : img.Px[i] = Translucent
    /\ \E i \in Pixels : IsBlack(dithered.Pix[i])
    /\ \E i \in Pixels : IsWhite(dithered.Pix[i])

\* The result has the bounds of the source, and a zero-area source gives a
\* zero-area result with no pixel visited.
SameBounds ==
    /\ dithered.Rect = img.Rect
    /\ Len(dithered.Pix) = Width * Height
    /\ (Width = 0 \/ Height = 0) => (Len(dithered.Pix) = 0 /\ quant = <<>>)

\* The steps Dither still has to take: none once it has returned.
Remaining ==
    CASE pc = "entry" -> Height * (Width + 2) + 2
      [] pc = "rows" -> (img.Rect.Max.Y - y) * (Width + 2) + 1
      [] pc = "cols" -> (img.Rect.Max.Y - y - 1) * (Width + 2) + (img.Rect.Max.X - x) + 2
      [] pc = "done" -> 0

\* C2: for every source, zero width or height included, Dither returns --
\* every step brings the return exactly one step nearer, and no steps remain
\* only once it has returned -- and what it returns has the bounds of the
\* source; nothing is visited in a zero-area source.
C2_ReturnsSameBounds ==
    [][/\ Remaining' = Remaining - 1
       /\ Remaining' >= 0
       /\ (Remaining' = 0) <=> (pc' = "done")
       /\ pc' = "done" => SameBounds']_vars

\* C2 witness: Dither has returned for a source of zero width and two rows.
C2_Witness ==
    pc = "done" /\ Width = 0 /\ Height = 2 /\ SameBounds /\ img.Rect.Min.X = Origin[1]

BinarySource == \A i \in 1..Len(img.Px) : img.Px[i] \in {BlackSrc, WhiteSrc}

\* C3: an opaque black-and-white source is a fixed point of monochrome
\* dithering under either kernel: every error vector is zero and, at every
\* point of the pass and in the result, every pixel has the channels of the
\* source pixel at its position.
C3_BinaryFixedPoint ==
    (pc # "entry" /\ Monochrome /\ BinarySource) =>
        /\ diff = RGBAVec(0, 0, 0, 0)
        /\ \A i \in Pixels : ColorRGBA(dithered.Pix[i]) = ColorRGBA(img.Px[i])

\* C3 witness: the 2x2 image [white, black; black, white] under FloydSteinberg,
\* finished.
C3_Witness ==
    /\ pc = "done" /\ Monochrome /\ algo = "FloydSteinberg"
    /\ img.Px = <<WhiteSrc, BlackSrc, BlackSrc, WhiteSrc>> /\ Width = 2
    /\ dithered.Pix = <<White8, Black8, Black8, White8>>

\* Every source pixel is the same opaque gray, at the monochrome threshold.
MidGray ==
    \E v \in {32767, 32768} : \A i \in 1..Len(img.Px) : img.Px[i] = RGBA64(v, v, v, 65535)

\* C4: a uniform opaque mid-gray image at the threshold, at least two pixels
\* wide and high (every N x N with N >= 2), comes out of monochrome dithering
\* under either kernel with at least one black and at least one white pixel.
C4_MidGrayNotUniform ==
    (pc = "done" /\ Monochrome /\ MidGray /\ Width >= 2 /\ Height >= 2) =>
        /\ \E i \in Pixels : dithered.Pix[i] = Black8
        /\ \E i \in Pixels : dithered.Pix[i] = White8

\* C4 witness: a 2x2 all-32767 image under Burkes, finished: the first pixel is
\* black and the error it sheds makes its right neighbour white.
C4_Witness ==
    /\ pc = "done" /\ Monochrome /\ algo = "Burkes" /\ Width = 2 /\ Height = 2
    /\ \A i \in 1..4 : img.Px[i] = RGBA64(32767, 32767, 32767, 65535)
    /\ dithered.Pix[1] = Black8 /\ dithered.Pix[2] = White8

\* The entries of the kernel table that land on pixel offset i of buffer p
\* when the kernel is applied at c.
Hits(al, p, c, i) ==
    {j \in 1..Len(Table(al)) :
        /\ c[1] + Table(al)[j].dx = p.Rect.Min.X + ((i - 1) % p.Stride)
        /\ c[2] + Table(al)[j].dy = p.Rect.Min.Y + ((i - 1) \div p.Stride)}

\* C7: a kernel applied where offsets leave the bounds (as everywhere) keeps
\* the buffer's bounds and size, leaves every pixel that is at no in-bounds
\* offset as it was (nothing wraps into another row or column), and gives each
\* in-bounds neighbour the colour it is normally due, stored through the RGBA
\* model; and what Dither returns is an image of the source's bounds with 8-bit
\* channels.
C7_BoundarySafe ==
    /\ (pc \in {"rows", "cols", "done"} /\ quant # <<>>) =>
        /\ dithered.Rect = before.Rect
        /\ dithered.Stride = before.Stride
        /\ Len(dithered.Pix) = Len(before.Pix)
        /\ \A i \in Pixels :
            IF Hits(algo, before, cur, i) = {}
            THEN dithered.Pix[i] = before.Pix[i]
            ELSE \A j \in Hits(algo, before, cur, i) :
                    dithered.Pix[i] =
                        RGBAModelConvert(Due(before, cur[1] + Table(algo)[j].dx,
                                             cur[2] + Table(algo)[j].dy, diff,
                                             Table(algo)[j].w, Denominator(algo)))
    /\ pc = "done" =>
        /\ dithered.Rect = img.Rect
        /\ Len(dithered.Pix) = Width * Height
        /\ \A i \in Pixels :
            {dithered.Pix[i].R, dithered.Pix[i].G, dithered.Pix[i].B, dithered.Pix[i].A}
                \subseteq 0..255

\* C7 witness: the kernel was just applied at the last column of the first of
\* two rows of an image three wide, with a red error: the offsets to the right
\* are outside, those below are inside.
C7_Witness ==
    /\ pc = "cols" /\ quant # <<>> /\ Width = 3 /\ Height = 2
    /\ cur = <<img.Rect.Max.X - 1, img.Rect.Min.Y>>
    /\ diff.R # 0
    /\ \E j \in 1..Len(calls) : ~In(calls[j].X, calls[j].Y, dithered.Rect)
    /\ \E j \in 1..Len(calls) : In(calls[j].X, calls[j].Y, dithered.Rect)

\* C8: pixels are visited in raster order; every pixel a kernel writes lies
\* after the current one in that order (a later row, or the same row further
\* right); a visited pixel keeps what the visit stored; and every pixel of the
\* result is the strategy's colour for the value the pixel held when visited
\* (quant[k].New is find(quant[k].Old), as the visit computed it).
C8_ForwardOnly ==
    /\ pc \in {"rows", "cols", "done"} =>
        \A k \in 1..Len(quant) :
            /\ PixOffset(dithered, quant[k].X, quant[k].Y) = k
            /\ dithered.Pix[k] = quant[k].Stored
    /\ \A j \in 1..Len(calls) :
            calls[j].Y > cur[2] \/ (calls[j].Y = cur[2] /\ calls[j].X > cur[1])
    /\ pc = "done" =>
        /\ Len(quant) = Len(dithered.Pix)
        /\ \A k \in Pixels :
            dithered.Pix[k] = RGBAModelConvert(quant[k].New)

\* C8 witness: a finished 3x2 run whose first pixel shed a non-zero error and
\* still holds what its visit stored.
C8_Witness ==
    /\ pc = "done" /\ Width = 3 /\ Height = 2 /\ Len(quant) = 6
    /\ ColorRGBA(quant[1].Old) # ColorRGBA(quant[1].Stored)
    /\ dithered.Pix[1] = quant[1].Stored

Channels == {"R", "G", "B", "A"}

\* A RGBA() result with the field names of a RGBAVec.
AsVec(q) == RGBAVec(q.r, q.g, q.b, q.a)

\* What the j-th img.Set of the last kernel call adds to channel ch of its pixel.
Amount(j, ch) == calls[j].C[ch] - AsVec(ColorRGBA(At(before, calls[j].X, calls[j].Y)))[ch]

\* FloydSteinberg has been applied at a pixel with all four neighbours in
\* bounds: right, below-right, below, below-left.
Interior ==
    /\ pc = "ret" /\ algo = "FloydSteinberg" /\ Len(calls) = 4
    /\ \A j \in 1..4 :
        /\ calls[j].X = cur[1] + FSTable[j].dx
        /\ calls[j].Y = cur[2] + FSTable[j].dy
        /\ In(calls[j].X, calls[j].Y, before.Rect)

\* No neighbour's channel ch leaves 0..65535 before clamping.
NoClamp(ch) ==
    \A j \in 1..4 :
        Unclamped(before, calls[j].X, calls[j].Y, diff, FSTable[j].w, 16)[ch] \in 0..MaxChannel

Distributed(ch) == Amount(1, ch) + Amount(2, ch) + Amount(3, ch) + Amount(4, ch)

\* C5 as claimed: at an interior pixel, for a channel nothing clamps, the four
\* amounts FloydSteinberg adds sum to exactly the channel's error.
C5_Conserved ==
    Interior => \A ch \in Channels : NoClamp(ch) => Distributed(ch) = diff[ch]

\* C5 as amended: each of the four amounts is rounded down, so their sum is the
\* error less 0 to 3, and is the error exactly when the error is a multiple of 16.
C5_ConservedUpToRounding ==
    Interior =>
        \A ch \in Channels :
            NoClamp(ch) =>
                /\ Distributed(ch) <= diff[ch]
                /\ diff[ch] - Distributed(ch) <= 3
                /\ (Distributed(ch) = diff[ch]) <=> (diff[ch] % 16 = 0)

\* C5 witness: an interior pixel, the extreme red error -65535 with nothing
\* clamped in red or green, and a red sum short of the error.
C5_Witness ==
    /\ Interior /\ diff.R = -65535 /\ NoClamp("R") /\ NoClamp("G")
    /\ diff.R - Distributed("R") \in 1..3

\* C10: Burkes makes seven img.Set calls, at (+1,0), (+2,0), (-2,+1), (-1,+1),
\* (0,+1), (+1,+1), (+2,+1) in this order, each with the neighbour's channels
\* plus floor(error*weight/32), clamped, for the weights 8, 4, 2, 4, 8, 4, 2,
\* which sum to 32; the buffer then holds these colours, through the RGBA
\* model, at the offsets in bounds and is unchanged elsewhere.
C10_BurkesSevenNeighbours ==
    (pc = "ret" /\ algo = "Burkes") =>
        /\ Len(calls) = 7
        /\ \A j \in 1..7 :
            /\ calls[j].X = cur[1] + BurkesTable[j].dx
            /\ calls[j].Y = cur[2] + BurkesTable[j].dy
            /\ calls[j].C = Due(before, calls[j].X, calls[j].Y, diff, BurkesTable[j].w, 32)
        /\ BurkesTable[1].w + BurkesTable[2].w + BurkesTable[3].w + BurkesTable[4].w
            + BurkesTable[5].w + BurkesTable[6].w + BurkesTable[7].w = 32
        /\ \A i \in Pixels :
            IF Hits("Burkes", before, cur, i) = {}
            THEN dithered.Pix[i] = before.Pix[i]
            ELSE \A j \in Hits("Burkes", before, cur, i) :
                    dithered.Pix[i] = RGBAModelConvert(calls[j].C)

\* C10 witness: Burkes applied with a red error of 65535 where all seven
\* neighbours are in bounds, one of them clamped at the maximum.
C10_Witness ==
    /\ pc = "ret" /\ algo = "Burkes" /\ Len(calls) = 7 /\ diff.R = 65535
    /\ \A j \in 1..7 : In(calls[j].X, calls[j].Y, before.Rect)
    /\ \E j \in 1..7 :
        Unclamped(before, calls[j].X, calls[j].Y, diff, BurkesTable[j].w, 32).R > MaxChannel

\* C6: each palette strategy returns its own result unchanged.
C6_Idempotent == pc = "quantized" => again = newPixel

\* C6 witness: WebSafePalette moved a colour and, applied again, kept the result.
C6_Witness ==
    /\ pc = "quantized" /\ find = "WebSafePalette"
    /\ ColorRGBA(newPixel) # ColorRGBA(oldPixel)
    /\ again = newPixel

\* The mean of the three colour channels of c, as an integer.
Luminance(c) == (ColorRGBA(c).r + ColorRGBA(c).g + ColorRGBA(c).b) \div 3

=============================================================================
